---- MODULE Spec2Model ----
(***************************************************************************)
(* Model of seller.py: the OZON seller synchronisation script.             *)
(*                                                                         *)
(* Representation.  A Python str that the code inspects (codes, quantity   *)
(* texts, price texts, offer IDs) is a sequence of one-character strings,  *)
(* so that str(), int(), split() and re.sub() are modelled by what they do *)
(* to the characters.  A character outside printable ASCII is written by   *)
(* its code point, "U+0440" for "р" (tab, newline, carriage return and     *)
(* form feed are "\t", "\n", "\r", "\f").  The                             *)
(* feed columns "Код", "Количество", "Цена" are the record fields Kod,     *)
(* Kolichestvo, Tsena.  A cell of the feed is a tagged value: a str, an    *)
(* int, or None (what dict.get returns for a missing column).              *)
(* String literals that the code only copies ("RUB", "UNKNOWN", "0") stay  *)
(* plain strings.                                                          *)
(***************************************************************************)
EXTENDS Integers, Sequences, FiniteSets, TLC

VARIABLES
    entry,           \* the entry point running: main, upload_stocks or upload_prices
    shop,            \* the seller's assortment, fixed for a run: "small" or "large"
    pc,              \* position of the entry point: the call it is about to make
    last_id,         \* get_offer_ids: cursor for the next request
    product_list,    \* get_offer_ids: items accumulated so far
    total,           \* get_offer_ids: total reported by the last page
    offer_ids,       \* the offer-ID list object (mutated in place by create_stocks)
    watch_remnants,  \* the feed records
    stocks,          \* result of create_stocks
    prices,          \* result of create_prices
    pending,         \* batches of the running upload loop not yet sent
    calls,           \* remote calls made so far, in order
    reported,        \* what main printed in an except branch ("" if nothing)
    history,         \* calls of the public functions that have ended, with
                     \* what each returned or raised
    lst,             \* divide: the list
    size,            \* divide: the chunk size n
    chunks           \* divide: what list(divide(lst, size)) produced

vars == << entry, shop, pc, last_id, product_list, total, offer_ids, watch_remnants, stocks,
           prices, pending, calls, reported, history, lst, size, chunks >>

mainVars == << entry, shop, pc, last_id, product_list, total, stocks, prices, pending, calls,
               reported >>
divideVars == << lst, size, chunks >>

-----------------------------------------------------------------------------
(* Bounds of the model. *)

MaxFeed == 2        \* feed records per feed
MaxCatalog == 3     \* offer IDs in a directly supplied offer-ID list
MaxCalls == 2       \* calls of create_stocks / create_prices on one list object
MaxPages == 2       \* product-list pages requested by get_offer_ids
MaxMainFeed == 1    \* feed records per feed in a run of main
BulkLen == 101      \* items of the long product-list page
LongLen == 901      \* items of the longest product-list page, records of the long feed
MaxLen == 5         \* length of the lists given to divide
MaxN == 3           \* chunk sizes given to divide

-----------------------------------------------------------------------------
(* Python built-ins used by the code. *)

Digits == << "0", "1", "2", "3", "4", "5", "6", "7", "8", "9" >>

IsDigit(c) == \E d \in 1..10 : Digits[d] = c

DigitVal(c) == (CHOOSE d \in 1..10 : Digits[d] = c) - 1

RECURSIVE NatToStr(_)
NatToStr(k) ==
    IF k < 10 THEN << Digits[k + 1] >>
    ELSE Append(NatToStr(k \div 10), Digits[(k % 10) + 1])

IntToStr(k) == IF k < 0 THEN << "-" >> \o NatToStr(0 - k) ELSE NatToStr(k)

StrV(s) == [t |-> "str", s |-> s, n |-> 0]
IntV(k) == [t |-> "int", s |-> << >>, n |-> k]
NoneV == [t |-> "none", s |-> << >>, n |-> 0]

\* str(x)
PyStr(x) ==
    CASE x.t = "str" -> x.s
      [] x.t = "int" -> IntToStr(x.n)
      [] OTHER -> << "N", "o", "n", "e" >>

\* The characters int() skips around a number.
Whitespace ==
    { "\t", "\n", "U+000B", "\f", "\r", " ", "U+0085", "U+00A0", "U+1680",
      "U+2000", "U+2001", "U+2002", "U+2003", "U+2004", "U+2005", "U+2006",
      "U+2007", "U+2008", "U+2009", "U+200A", "U+2028", "U+2029", "U+202F",
      "U+205F", "U+3000" }

\* The decimal digits int() accepts: per script, the digits zero to nine.
DecimalRuns ==
    << << "U+0660", "U+0661", "U+0662", "U+0663", "U+0664", "U+0665", "U+0666", "U+0667", "U+0668", "U+0669" >>,
       << "U+06F0", "U+06F1", "U+06F2", "U+06F3", "U+06F4", "U+06F5", "U+06F6", "U+06F7", "U+06F8", "U+06F9" >>,
       << "U+07C0", "U+07C1", "U+07C2", "U+07C3", "U+07C4", "U+07C5", "U+07C6", "U+07C7", "U+07C8", "U+07C9" >>,
       << "U+0966", "U+0967", "U+0968", "U+0969", "U+096A", "U+096B", "U+096C", "U+096D", "U+096E", "U+096F" >>,
       << "U+09E6", "U+09E7", "U+09E8", "U+09E9", "U+09EA", "U+09EB", "U+09EC", "U+09ED", "U+09EE", "U+09EF" >>,
       << "U+0A66", "U+0A67", "U+0A68", "U+0A69", "U+0A6A", "U+0A6B", "U+0A6C", "U+0A6D", "U+0A6E", "U+0A6F" >>,
       << "U+0AE6", "U+0AE7", "U+0AE8", "U+0AE9", "U+0AEA", "U+0AEB", "U+0AEC", "U+0AED", "U+0AEE", "U+0AEF" >>,
       << "U+0B66", "U+0B67", "U+0B68", "U+0B69", "U+0B6A", "U+0B6B", "U+0B6C", "U+0B6D", "U+0B6E", "U+0B6F" >>,
       << "U+0BE6", "U+0BE7", "U+0BE8", "U+0BE9", "U+0BEA", "U+0BEB", "U+0BEC", "U+0BED", "U+0BEE", "U+0BEF" >>,
       << "U+0C66", "U+0C67", "U+0C68", "U+0C69", "U+0C6A", "U+0C6B", "U+0C6C", "U+0C6D", "U+0C6E", "U+0C6F" >>,
       << "U+0CE6", "U+0CE7", "U+0CE8", "U+0CE9", "U+0CEA", "U+0CEB", "U+0CEC", "U+0CED", "U+0CEE", "U+0CEF" >>,
       << "U+0D66", "U+0D67", "U+0D68", "U+0D69", "U+0D6A", "U+0D6B", "U+0D6C", "U+0D6D", "U+0D6E", "U+0D6F" >>,
       << "U+0DE6", "U+0DE7", "U+0DE8", "U+0DE9", "U+0DEA", "U+0DEB", "U+0DEC", "U+0DED", "U+0DEE", "U+0DEF" >>,
       << "U+0E50", "U+0E51", "U+0E52", "U+0E53", "U+0E54", "U+0E55", "U+0E56", "U+0E57", "U+0E58", "U+0E59" >>,
       << "U+0ED0", "U+0ED1", "U+0ED2", "U+0ED3", "U+0ED4", "U+0ED5", "U+0ED6", "U+0ED7", "U+0ED8", "U+0ED9" >>,
       << "U+0F20", "U+0F21", "U+0F22", "U+0F23", "U+0F24", "U+0F25", "U+0F26", "U+0F27", "U+0F28", "U+0F29" >>,
       << "U+1040", "U+1041", "U+1042", "U+1043", "U+1044", "U+1045", "U+1046", "U+1047", "U+1048", "U+1049" >>,
       << "U+1090", "U+1091", "U+1092", "U+1093", "U+1094", "U+1095", "U+1096", "U+1097", "U+1098", "U+1099" >>,
       << "U+17E0", "U+17E1", "U+17E2", "U+17E3", "U+17E4", "U+17E5", "U+17E6", "U+17E7", "U+17E8", "U+17E9" >>,
       << "U+1810", "U+1811", "U+1812", "U+1813", "U+1814", "U+1815", "U+1816", "U+1817", "U+1818", "U+1819" >>,
       << "U+1946", "U+1947", "U+1948", "U+1949", "U+194A", "U+194B", "U+194C", "U+194D", "U+194E", "U+194F" >>,
       << "U+19D0", "U+19D1", "U+19D2", "U+19D3", "U+19D4", "U+19D5", "U+19D6", "U+19D7", "U+19D8", "U+19D9" >>,
       << "U+1A80", "U+1A81", "U+1A82", "U+1A83", "U+1A84", "U+1A85", "U+1A86", "U+1A87", "U+1A88", "U+1A89" >>,
       << "U+1A90", "U+1A91", "U+1A92", "U+1A93", "U+1A94", "U+1A95", "U+1A96", "U+1A97", "U+1A98", "U+1A99" >>,
       << "U+1B50", "U+1B51", "U+1B52", "U+1B53", "U+1B54", "U+1B55", "U+1B56", "U+1B57", "U+1B58", "U+1B59" >>,
       << "U+1BB0", "U+1BB1", "U+1BB2", "U+1BB3", "U+1BB4", "U+1BB5", "U+1BB6", "U+1BB7", "U+1BB8", "U+1BB9" >>,
       << "U+1C40", "U+1C41", "U+1C42", "U+1C43", "U+1C44", "U+1C45", "U+1C46", "U+1C47", "U+1C48", "U+1C49" >>,
       << "U+1C50", "U+1C51", "U+1C52", "U+1C53", "U+1C54", "U+1C55", "U+1C56", "U+1C57", "U+1C58", "U+1C59" >>,
       << "U+A620", "U+A621", "U+A622", "U+A623", "U+A624", "U+A625", "U+A626", "U+A627", "U+A628", "U+A629" >>,
       << "U+A8D0", "U+A8D1", "U+A8D2", "U+A8D3", "U+A8D4", "U+A8D5", "U+A8D6", "U+A8D7", "U+A8D8", "U+A8D9" >>,
       << "U+A900", "U+A901", "U+A902", "U+A903", "U+A904", "U+A905", "U+A906", "U+A907", "U+A908", "U+A909" >>,
       << "U+A9D0", "U+A9D1", "U+A9D2", "U+A9D3", "U+A9D4", "U+A9D5", "U+A9D6", "U+A9D7", "U+A9D8", "U+A9D9" >>,
       << "U+A9F0", "U+A9F1", "U+A9F2", "U+A9F3", "U+A9F4", "U+A9F5", "U+A9F6", "U+A9F7", "U+A9F8", "U+A9F9" >>,
       << "U+AA50", "U+AA51", "U+AA52", "U+AA53", "U+AA54", "U+AA55", "U+AA56", "U+AA57", "U+AA58", "U+AA59" >>,
       << "U+ABF0", "U+ABF1", "U+ABF2", "U+ABF3", "U+ABF4", "U+ABF5", "U+ABF6", "U+ABF7", "U+ABF8", "U+ABF9" >>,
       << "U+FF10", "U+FF11", "U+FF12", "U+FF13", "U+FF14", "U+FF15", "U+FF16", "U+FF17", "U+FF18", "U+FF19" >>,
       << "U+104A0", "U+104A1", "U+104A2", "U+104A3", "U+104A4", "U+104A5", "U+104A6", "U+104A7", "U+104A8", "U+104A9" >>,
       << "U+10D30", "U+10D31", "U+10D32", "U+10D33", "U+10D34", "U+10D35", "U+10D36", "U+10D37", "U+10D38", "U+10D39" >>,
       << "U+11066", "U+11067", "U+11068", "U+11069", "U+1106A", "U+1106B", "U+1106C", "U+1106D", "U+1106E", "U+1106F" >>,
       << "U+110F0", "U+110F1", "U+110F2", "U+110F3", "U+110F4", "U+110F5", "U+110F6", "U+110F7", "U+110F8", "U+110F9" >>,
       << "U+11136", "U+11137", "U+11138", "U+11139", "U+1113A", "U+1113B", "U+1113C", "U+1113D", "U+1113E", "U+1113F" >>,
       << "U+111D0", "U+111D1", "U+111D2", "U+111D3", "U+111D4", "U+111D5", "U+111D6", "U+111D7", "U+111D8", "U+111D9" >>,
       << "U+112F0", "U+112F1", "U+112F2", "U+112F3", "U+112F4", "U+112F5", "U+112F6", "U+112F7", "U+112F8", "U+112F9" >>,
       << "U+11450", "U+11451", "U+11452", "U+11453", "U+11454", "U+11455", "U+11456", "U+11457", "U+11458", "U+11459" >>,
       << "U+114D0", "U+114D1", "U+114D2", "U+114D3", "U+114D4", "U+114D5", "U+114D6", "U+114D7", "U+114D8", "U+114D9" >>,
       << "U+11650", "U+11651", "U+11652", "U+11653", "U+11654", "U+11655", "U+11656", "U+11657", "U+11658", "U+11659" >>,
       << "U+116C0", "U+116C1", "U+116C2", "U+116C3", "U+116C4", "U+116C5", "U+116C6", "U+116C7", "U+116C8", "U+116C9" >>,
       << "U+11730", "U+11731", "U+11732", "U+11733", "U+11734", "U+11735", "U+11736", "U+11737", "U+11738", "U+11739" >>,
       << "U+118E0", "U+118E1", "U+118E2", "U+118E3", "U+118E4", "U+118E5", "U+118E6", "U+118E7", "U+118E8", "U+118E9" >>,
       << "U+11950", "U+11951", "U+11952", "U+11953", "U+11954", "U+11955", "U+11956", "U+11957", "U+11958", "U+11959" >>,
       << "U+11C50", "U+11C51", "U+11C52", "U+11C53", "U+11C54", "U+11C55", "U+11C56", "U+11C57", "U+11C58", "U+11C59" >>,
       << "U+11D50", "U+11D51", "U+11D52", "U+11D53", "U+11D54", "U+11D55", "U+11D56", "U+11D57", "U+11D58", "U+11D59" >>,
       << "U+11DA0", "U+11DA1", "U+11DA2", "U+11DA3", "U+11DA4", "U+11DA5", "U+11DA6", "U+11DA7", "U+11DA8", "U+11DA9" >>,
       << "U+16A60", "U+16A61", "U+16A62", "U+16A63", "U+16A64", "U+16A65", "U+16A66", "U+16A67", "U+16A68", "U+16A69" >>,
       << "U+16AC0", "U+16AC1", "U+16AC2", "U+16AC3", "U+16AC4", "U+16AC5", "U+16AC6", "U+16AC7", "U+16AC8", "U+16AC9" >>,
       << "U+16B50", "U+16B51", "U+16B52", "U+16B53", "U+16B54", "U+16B55", "U+16B56", "U+16B57", "U+16B58", "U+16B59" >>,
       << "U+1D7CE", "U+1D7CF", "U+1D7D0", "U+1D7D1", "U+1D7D2", "U+1D7D3", "U+1D7D4", "U+1D7D5", "U+1D7D6", "U+1D7D7" >>,
       << "U+1D7D8", "U+1D7D9", "U+1D7DA", "U+1D7DB", "U+1D7DC", "U+1D7DD", "U+1D7DE", "U+1D7DF", "U+1D7E0", "U+1D7E1" >>,
       << "U+1D7E2", "U+1D7E3", "U+1D7E4", "U+1D7E5", "U+1D7E6", "U+1D7E7", "U+1D7E8", "U+1D7E9", "U+1D7EA", "U+1D7EB" >>,
       << "U+1D7EC", "U+1D7ED", "U+1D7EE", "U+1D7EF", "U+1D7F0", "U+1D7F1", "U+1D7F2", "U+1D7F3", "U+1D7F4", "U+1D7F5" >>,
       << "U+1D7F6", "U+1D7F7", "U+1D7F8", "U+1D7F9", "U+1D7FA", "U+1D7FB", "U+1D7FC", "U+1D7FD", "U+1D7FE", "U+1D7FF" >>,
       << "U+1E140", "U+1E141", "U+1E142", "U+1E143", "U+1E144", "U+1E145", "U+1E146", "U+1E147", "U+1E148", "U+1E149" >>,
       << "U+1E2F0", "U+1E2F1", "U+1E2F2", "U+1E2F3", "U+1E2F4", "U+1E2F5", "U+1E2F6", "U+1E2F7", "U+1E2F8", "U+1E2F9" >>,
       << "U+1E950", "U+1E951", "U+1E952", "U+1E953", "U+1E954", "U+1E955", "U+1E956", "U+1E957", "U+1E958", "U+1E959" >>,
       << "U+1FBF0", "U+1FBF1", "U+1FBF2", "U+1FBF3", "U+1FBF4", "U+1FBF5", "U+1FBF6", "U+1FBF7", "U+1FBF8", "U+1FBF9" >> >>

IsSpace(c) == c \in Whitespace

IsDecimal(c) ==
    IsDigit(c) \/ \E r \in 1..Len(DecimalRuns) : \E d \in 1..10 : DecimalRuns[r][d] = c

DecimalVal(c) ==
    IF IsDigit(c) THEN DigitVal(c)
    ELSE LET r == CHOOSE q \in 1..Len(DecimalRuns) : \E d \in 1..10 : DecimalRuns[q][d] = c
         IN  (CHOOSE d \in 1..10 : DecimalRuns[r][d] = c) - 1

RECURSIVE LStrip(_)
LStrip(s) == IF s # << >> /\ IsSpace(Head(s)) THEN LStrip(Tail(s)) ELSE s

RECURSIVE RStrip(_)
RStrip(s) ==
    IF s # << >> /\ IsSpace(s[Len(s)]) THEN RStrip(SubSeq(s, 1, Len(s) - 1)) ELSE s

RECURSIVE DigitsToNat(_)
DigitsToNat(s) ==
    IF s = << >> THEN 0
    ELSE 10 * DigitsToNat(SubSeq(s, 1, Len(s) - 1)) + DecimalVal(s[Len(s)])

\* The digits from the first non-zero one on: leading zeros add nothing to
\* the value.
SignificantDigits(s) ==
    LET nonzero == { i \in 1..Len(s) : DecimalVal(s[i]) # 0 }
    IN  IF nonzero = {} THEN << >>
        ELSE SubSeq(s, CHOOSE i \in nonzero : \A j \in nonzero : i <= j, Len(s))

\* The interpreter's limit on the digits of a text converted by int()
\* (sys.get_int_max_str_digits(), Python 3.11 default): leading zeros
\* count, the sign, underscores and surrounding whitespace do not.
MAX_STR_DIGITS == 4300

\* int(x).  For a str: surrounding whitespace is stripped, one sign is allowed,
\* the rest must be decimal digits (of any script), with single underscores
\* allowed between digits, and at most MAX_STR_DIGITS digits; anything else
\* raises ValueError.  None raises TypeError.
PyInt(x) ==
    CASE x.t = "int" -> [raised |-> "", val |-> x.n]
      [] x.t = "none" -> [raised |-> "TypeError", val |-> 0]
      [] OTHER ->
           LET body == RStrip(LStrip(x.s))
               signed == body # << >> /\ Head(body) \in {"+", "-"}
               digs == IF signed THEN Tail(body) ELSE body
               wellFormed ==
                   /\ digs # << >>
                   /\ \A i \in 1..Len(digs) : IsDecimal(digs[i]) \/ digs[i] = "_"
                   /\ IsDecimal(digs[1]) /\ IsDecimal(digs[Len(digs)])
                   /\ \A i \in 1..(Len(digs) - 1) : ~(digs[i] = "_" /\ digs[i + 1] = "_")
               digits == SelectSeq(digs, IsDecimal)
               magnitude == DigitsToNat(SignificantDigits(digits))
           IN  IF ~wellFormed \/ Len(digits) > MAX_STR_DIGITS
               THEN [raised |-> "ValueError", val |-> 0]
               ELSE [raised |-> "",
                     val |-> IF signed /\ Head(body) = "-" THEN 0 - magnitude
                             ELSE magnitude]

\* x in l, for a list l
In(x, l) == \E i \in 1..Len(l) : l[i] = x

Remove_none(l, x) == l

\* l.remove(x): delete the first occurrence
Remove(l, x) ==
    LET i == CHOOSE j \in 1..Len(l) : l[j] = x /\ \A k \in 1..(j - 1) : l[k] # x
    IN  SubSeq(l, 1, i - 1) \o SubSeq(l, i + 1, Len(l))

\* l[a:b] for 0 <= a
Slice(l, a, b) ==
    LET hi == IF b < Len(l) THEN b ELSE Len(l)
    IN  IF a >= hi THEN << >> ELSE SubSeq(l, a + 1, hi)

\* list(range(0, stop, step)), step # 0
Range0(stop, step) ==
    IF step < 0 \/ stop <= 0 THEN << >>
    ELSE [j \in 1..(((stop - 1) \div step) + 1) |-> (j - 1) * step]

-----------------------------------------------------------------------------
(* price_conversion: re.sub("[^0-9]", "", price.split(".")[0]) *)

\* s.split(".")[0]: the text before the first "."
BeforeDot(s) ==
    IF \E i \in 1..Len(s) : s[i] = "."
    THEN SubSeq(s, 1, (CHOOSE i \in 1..Len(s) :
                         s[i] = "." /\ \A k \in 1..(i - 1) : s[k] # ".") - 1)
    ELSE s

\* re.sub("[^0-9]", "", s)
KeepDigits(s) == SelectSeq(s, IsDigit)

\* A price that is no str has no split(): AttributeError.
price_conversion(price) ==
    IF price.t # "str" THEN [raised |-> "AttributeError", val |-> << >>]
    ELSE [raised |-> "", val |-> KeepDigits(BeforeDot(price.s))]

-----------------------------------------------------------------------------
(* create_stocks *)

GT10 == << ">", "1", "0" >>
ONE == << "1" >>

\* Lines 266-272: the stock of a matched record; int() may raise.
StockValue_plain(watch) == PyInt(watch.Kolichestvo)

StockValue(watch) ==
    LET count == PyStr(watch.Kolichestvo)
    IN  IF count = GT10 THEN [raised |-> "", val |-> 100]
        ELSE IF count = ONE THEN [raised |-> "", val |-> 0]
        ELSE PyInt(watch.Kolichestvo)

\* One pass of the first loop's body (lines 265-274) from the loop state st:
\* the stocks built so far and the list object as it stands.  An exception
\* leaves the list as mutated up to the failing record.
StockPass(watch, st) ==
    LET code == PyStr(watch.Kod)
    IN  IF st.raised # "" \/ ~In(code, st.offer_ids) THEN st
        ELSE LET v == StockValue(watch)
             IN  IF v.raised # ""
                 THEN [raised |-> v.raised, stocks |-> st.stocks,
                       offer_ids |-> st.offer_ids]
                 ELSE [raised |-> "",
                       stocks |-> Append(st.stocks, [offer_id |-> code, stock |-> v.val]),
                       offer_ids |-> Remove(st.offer_ids, code)]

\* The passes for the records wr[lo], ..., wr[hi], in feed order, from the
\* loop state st; an exception leaves the loop.  (The range is halved so
\* that the nesting of the evaluation stays shallow; the passes and their
\* order are the loop's.)
RECURSIVE StocksLoop(_, _, _, _)
StocksLoop(wr, lo, hi, st) ==
    IF lo > hi THEN st
    ELSE IF lo = hi THEN StockPass(wr[lo], st)
    ELSE LET mid == (lo + hi) \div 2
             first == StocksLoop(wr, lo, mid, st)
         IN  IF first.raised # "" THEN first
             ELSE StocksLoop(wr, mid + 1, hi, first)

\* create_stocks(watch_remnants, offer_ids): ret is the returned list (when
\* nothing was raised), offer_ids is the caller's list object afterwards.
create_stocks(wr, ids) ==
    LET r == StocksLoop(wr, 1, Len(wr),
                        [raised |-> "", stocks |-> << >>, offer_ids |-> ids])
    IN  [raised |-> r.raised,
         ret |-> r.stocks \o [k \in 1..Len(r.offer_ids) |->
                                [offer_id |-> r.offer_ids[k], stock |-> 0]],
         offer_ids |-> r.offer_ids]

-----------------------------------------------------------------------------
(* create_prices *)

PriceEntry(code, p) ==
    [auto_action_enabled |-> "UNKNOWN", currency_code |-> "RUB",
     offer_id |-> code, old_price |-> "0", price |-> p]

PricePass_all(watch, st, ids) ==
    LET p == price_conversion(watch.Tsena)
    IN  IF st.raised # "" THEN st
        ELSE IF p.raised # "" THEN [raised |-> p.raised, prices |-> st.prices]
        ELSE [raised |-> "",
              prices |-> Append(st.prices, PriceEntry(PyStr(watch.Kod), p.val))]

\* One pass of the loop body (lines 295-303) from the loop state st.
PricePass(watch, st, ids) ==
    LET code == PyStr(watch.Kod)
    IN  IF st.raised # "" \/ ~In(code, ids) THEN st
        ELSE LET p == price_conversion(watch.Tsena)
             IN  IF p.raised # "" THEN [raised |-> p.raised, prices |-> st.prices]
                 ELSE [raised |-> "",
                       prices |-> Append(st.prices, PriceEntry(code, p.val))]

\* The passes for the records wr[lo], ..., wr[hi], in feed order; an
\* exception leaves the loop.
RECURSIVE PricesLoop(_, _, _, _, _)
PricesLoop(wr, lo, hi, st, ids) ==
    IF lo > hi THEN st
    ELSE IF lo = hi THEN PricePass(wr[lo], st, ids)
    ELSE LET mid == (lo + hi) \div 2
             first == PricesLoop(wr, lo, mid, st, ids)
         IN  IF first.raised # "" THEN first
             ELSE PricesLoop(wr, mid + 1, hi, first, ids)

\* create_prices(watch_remnants, offer_ids); the list object is only read.
create_prices(wr, ids) ==
    LET r == PricesLoop(wr, 1, Len(wr), [raised |-> "", prices |-> << >>], ids)
    IN  [raised |-> r.raised, ret |-> r.prices, offer_ids |-> ids]

-----------------------------------------------------------------------------
(* divide *)

divide_full(l, k) ==
    IF k < 1 THEN << >>
    ELSE [j \in 1..(Len(l) \div k) |-> SubSeq(l, (j - 1) * k + 1, j * k)]

divide_over(l, k) ==
    LET starts == Range0(Len(l), k)
    IN  [j \in 1..Len(starts) |-> Slice(l, starts[j], starts[j] + k + 1)]

\* list(divide(lst, n)) for n # 0: one slice lst[i : i + n] per i of
\* range(0, len(lst), n).  (n = 0 makes range() raise ValueError.)
divide(l, k) ==
    LET starts == Range0(Len(l), k)
    IN  [j \in 1..Len(starts) |-> Slice(l, starts[j], starts[j] + k)]

-----------------------------------------------------------------------------
(* Inputs. *)

X == << "X" >>
Y == << "Y" >>
SEVEN == << "7" >>
Z == << "Z" >>

\* "1'200.00 руб.", "5'990.00 руб.", "0.00 руб.", "12.50"
P1200 == << "1", "'", "2", "0", "0", ".", "0", "0", " ", "U+0440", "U+0443", "U+0431", "." >>
P5990 == << "5", "'", "9", "9", "0", ".", "0", "0", " ", "U+0440", "U+0443", "U+0431", "." >>
P0 == << "0", ".", "0", "0", " ", "U+0440", "U+0443", "U+0431", "." >>
P12 == << "1", "2", ".", "5", "0" >>

Watch(code, count, price) == [Kod |-> code, Kolichestvo |-> count, Tsena |-> price]

\* Feed records: str and int cells, the three quantity rules, a negative and
\* an unparseable quantity, a quantity with surrounding whitespace and a
\* non-ASCII decimal digit, a code unknown to every catalog, a non-str price.
RecSet ==
    { Watch(StrV(X), StrV(<< "5" >>), StrV(P1200)),
      Watch(StrV(X), StrV(GT10), StrV(P5990)),
      Watch(StrV(Y), StrV(ONE), StrV(P0)),
      Watch(StrV(Y), StrV(<< "-", "3" >>), StrV(P12)),
      Watch(IntV(7), IntV(1), StrV(P12)),
      Watch(IntV(7), StrV(<< "\t", "1", "U+0662", "\n" >>), IntV(990)),
      Watch(StrV(X), StrV(<< "a", "b" >>), StrV(P0)),
      Watch(StrV(Z), IntV(3), StrV(P1200)) }

Feeds == UNION { [1..k -> RecSet] : k \in 0..MaxFeed }

IdSet == { X, Y, SEVEN }

Catalogs == UNION { [1..k -> IdSet] : k \in 0..MaxCatalog }

\* A long feed: one record for each of the codes "1", "2", ...
LongFeed == [i \in 1..LongLen |-> Watch(StrV(NatToStr(i)), StrV(<< "5" >>), StrV(P1200))]

\* The feeds a run may download: short ones for a small shop, none or the
\* long one for a large shop.
MainFeeds ==
    IF shop = "small" THEN UNION { [1..k -> RecSet] : k \in 0..MaxMainFeed }
    ELSE { << >>, LongFeed }

NotCalled == [called |-> FALSE, raised |-> "", out |-> << >>]

-----------------------------------------------------------------------------
(* create_stocks and create_prices called directly: a client of the module    *)
(* holds a feed and an offer-ID list object and calls the two public          *)
(* functions on them, possibly more than once.  (main, upload_stocks and      *)
(* upload_prices, modelled further down, fetch the list themselves.)          *)

InitIdle ==
    /\ entry = "client" /\ shop = "small" /\ pc = "idle"
    /\ last_id = << >> /\ product_list = << >> /\ total = 0
    /\ stocks = << >> /\ prices = << >> /\ pending = << >> /\ calls = << >>
    /\ reported = ""

InitRecon ==
    /\ watch_remnants \in Feeds
    /\ offer_ids \in Catalogs
    /\ history = << >>
    /\ InitIdle
    /\ lst = << >> /\ size = 1 /\ chunks = NotCalled

Returned(fn, arg, r) ==
    [fn |-> fn, arg |-> arg, raised |-> r.raised,
     ret |-> IF r.raised = "" THEN r.ret ELSE << >>, after |-> r.offer_ids]

\* create_stocks(watch_remnants, offer_ids) on the client's objects.
ClientCreateStocks ==
    /\ Len(history) < MaxCalls
    /\ LET r == create_stocks(watch_remnants, offer_ids)
       IN  /\ history' = Append(history, Returned("create_stocks", offer_ids, r))
           /\ offer_ids' = r.offer_ids
    /\ UNCHANGED << watch_remnants, mainVars, divideVars >>

\* create_prices(watch_remnants, offer_ids) on the client's objects.
ClientCreatePrices ==
    /\ Len(history) < MaxCalls
    /\ LET r == create_prices(watch_remnants, offer_ids)
       IN  /\ history' = Append(history, Returned("create_prices", offer_ids, r))
           /\ offer_ids' = r.offer_ids
    /\ UNCHANGED << watch_remnants, mainVars, divideVars >>

NextRecon == ClientCreateStocks \/ ClientCreatePrices

SpecRecon == InitRecon /\ [][NextRecon]_vars

-----------------------------------------------------------------------------
(* divide on its own. *)

Lists == UNION { [1..k -> {1, 2}] : k \in 0..MaxLen } \cup { [i \in 1..250 |-> i] }

Sizes == (-1..MaxN) \cup { 100 }

InitDivide ==
    /\ lst \in Lists
    /\ size \in Sizes
    /\ chunks = NotCalled
    /\ InitIdle
    /\ offer_ids = << >> /\ watch_remnants = << >> /\ history = << >>

CallDivide ==
    /\ ~chunks.called
    /\ chunks' = IF size = 0
                 THEN [called |-> TRUE, raised |-> "ValueError", out |-> << >>]
                 ELSE [called |-> TRUE, raised |-> "", out |-> divide(lst, size)]
    /\ UNCHANGED << lst, size, offer_ids, watch_remnants, history, mainVars >>

NextDivide == CallDivide

SpecDivide == InitDivide /\ [][NextDivide]_vars

-----------------------------------------------------------------------------
(* The entry points: one run of main, or one call of upload_stocks or of       *)
(* upload_prices.  The marketplace and the feed site are the environment:     *)
(* every page, total, cursor, feed and failure is their choice.               *)

STOCK_BATCH == 100
PRICE_BATCH == 900
UPLOAD_PRICE_BATCH == 1000

\* Cursors the server may return ("" and one other).
CursorSet == { << >>, << "c" >> }

Product(id) == [offer_id |-> id]

\* Short pages: none, one or two items.
ShortPages ==
    { << >>, << Product(X) >>, << Product(Y) >>, << Product(X), Product(Y) >> }

\* A long page: offer IDs "1", "2", ...
BulkPage == [i \in 1..BulkLen |-> Product(NatToStr(i))]

\* The longest page (a request asks for at most 1000 items, line 73).
LongPage == [i \in 1..LongLen |-> Product(NatToStr(i))]

\* The pages the marketplace may serve: for a small shop the short ones and
\* the long one, for a large shop none or the longest one.
Pages ==
    IF shop = "small" THEN ShortPages \cup { BulkPage }
    ELSE { << >>, LongPage }

\* The total a page reports is compared with the accumulated count and used
\* for nothing else: it is below it, equal to it, or above it.
Totals(count) == { count, count + 1 } \cup (IF count > 0 THEN { count - 1 } ELSE {})

\* What a failing remote call raises (requests.exceptions).
RemoteErrors == { "ReadTimeout", "ConnectionError", "HTTPError" }

Call(op, ok, arg) == [op |-> op, ok |-> ok, arg |-> arg]

InitMain ==
    /\ entry = "main" /\ pc = "env"
    /\ shop \in { "small", "large" }
    /\ last_id = << >> /\ product_list = << >> /\ total = 0
    /\ offer_ids = << >> /\ watch_remnants = << >>
    /\ stocks = << >> /\ prices = << >> /\ pending = << >>
    /\ calls = << >> /\ reported = ""
    /\ history = << >> /\ lst = << >> /\ size = 1 /\ chunks = NotCalled

\* Lines 396-401: the message printed for an exception raised inside the try.
Handler(exc) ==
    CASE exc = "ReadTimeout" -> "Prevysheno vremya ozhidaniya..."
      [] exc = "ConnectionError" -> "Oshibka soedineniya"
      [] OTHER -> "ERROR_2"

Raise_resume(exc) == reported' = Handler(exc) /\ UNCHANGED << pc, history >>

\* An exception.  In main it is raised inside the try block: the matching
\* except branch prints and main returns.  upload_stocks and upload_prices
\* catch nothing: the exception leaves the call.
Raise(exc) ==
    IF entry = "main"
    THEN reported' = Handler(exc) /\ pc' = "error" /\ UNCHANGED history
    ELSE /\ pc' = "raised"
         /\ history' = Append(history, [fn |-> entry, raised |-> exc, ret |-> << >>])
         /\ UNCHANGED reported

\* Where the caller of get_offer_ids goes on (lines 387, 374, 354).
AfterOfferIds ==
    CASE entry = "main" -> "download_stock"
      [] entry = "upload_stocks" -> "create_stocks"
      [] OTHER -> "create_prices"

\* The stock batches are all sent: main goes on to the prices (line 393),
\* upload_stocks returns (not_empty, stocks) (lines 377-378).
StocksSent(st) ==
    IF entry = "main" THEN pc' = "create_prices" /\ UNCHANGED history
    ELSE /\ pc' = "returned"
         /\ history' = Append(history,
               [fn |-> entry, raised |-> "",
                ret |-> << SelectSeq(st, LAMBDA e : e.stock # 0), st >>])

\* The price batches are all sent: main ends, upload_prices returns prices
\* (line 357).
PricesSent(pr) ==
    IF entry = "main" THEN pc' = "done" /\ UNCHANGED history
    ELSE /\ pc' = "returned"
         /\ history' = Append(history, [fn |-> entry, raised |-> "", ret |-> pr])

\* The batch size of the price upload (lines 394, 355).
PriceBatchSize == IF entry = "main" THEN PRICE_BATCH ELSE UPLOAD_PRICE_BATCH

\* Lines 382-384: the two env.str lookups precede the try block.
LoadEnv ==
    /\ pc = "env"
    /\ \/ pc' = "get_offer_ids"
       \/ pc' = "uncaught"
    /\ UNCHANGED << last_id, product_list, total, offer_ids, watch_remnants, stocks,
                    prices, pending, calls, reported, history, divideVars, entry, shop >>

\* Line 100: the loop of get_offer_ids ends.
LoopEnds_reached(tot, count) == tot <= count

LoopEnds(tot, count) == tot = count

\* Line 96: the cursor sent with the next request.
CursorToSend == last_id

\* One pass of the loop of get_offer_ids (lines 96-101), and lines 102-105
\* when the loop ends.
GetProductList ==
    /\ pc = "get_offer_ids"
    /\ Len(calls) < MaxPages
    /\ \E items \in Pages, cursor \in CursorSet :
         \E tot \in Totals(Len(product_list) + Len(items)) :
            /\ calls' = Append(calls, Call("get_product_list", TRUE, CursorToSend))
            /\ product_list' = product_list \o items
            /\ total' = tot
            /\ last_id' = cursor
            /\ IF LoopEnds(tot, Len(product_list'))
               THEN /\ offer_ids' = [k \in 1..Len(product_list') |->
                                        product_list'[k].offer_id]
                    /\ pc' = AfterOfferIds
               ELSE UNCHANGED << offer_ids, pc >>
    /\ UNCHANGED << watch_remnants, stocks, prices, pending, reported, history,
                    divideVars, entry, shop >>

GetProductListFails ==
    /\ pc = "get_offer_ids"
    /\ Len(calls) < MaxPages
    /\ \E exc \in RemoteErrors :
          /\ calls' = Append(calls, Call("get_product_list", FALSE, CursorToSend))
          /\ Raise(exc)
    /\ UNCHANGED << last_id, product_list, total, offer_ids, watch_remnants, stocks,
                    prices, pending, divideVars, entry, shop >>

\* download_stock, lines 231-246.
DownloadStock ==
    /\ pc = "download_stock"
    /\ \E feed \in MainFeeds : watch_remnants' = feed
    /\ calls' = Append(calls, Call("download_stock", TRUE, << >>))
    /\ pc' = "create_stocks"
    /\ UNCHANGED << last_id, product_list, total, offer_ids, stocks, prices, pending,
                    reported, history, divideVars, entry, shop >>

DownloadStockFails ==
    /\ pc = "download_stock"
    /\ \E exc \in RemoteErrors :
          /\ calls' = Append(calls, Call("download_stock", FALSE, << >>))
          /\ Raise(exc)
    /\ UNCHANGED << last_id, product_list, total, offer_ids, watch_remnants, stocks,
                    prices, pending, divideVars, entry, shop >>

\* The archive arrives but is no zip file, or holds no readable ostatki.xls.
DownloadStockUnreadable ==
    /\ pc = "download_stock"
    /\ calls' = Append(calls, Call("download_stock", TRUE, << >>))
    /\ Raise("BadZipFile")
    /\ UNCHANGED << last_id, product_list, total, offer_ids, watch_remnants, stocks,
                    prices, pending, divideVars, entry, shop >>

\* Lines 389-390 (main) and 374-375 (upload_stocks): create_stocks, then
\* list(divide(stocks, 100)).
CreateStocks ==
    /\ pc = "create_stocks"
    /\ LET r == create_stocks(watch_remnants, offer_ids)
       IN  /\ offer_ids' = r.offer_ids
           /\ IF r.raised # ""
              THEN Raise(r.raised) /\ UNCHANGED << stocks, pending >>
              ELSE /\ stocks' = r.ret
                   /\ pending' = divide(r.ret, STOCK_BATCH)
                   /\ IF pending' = << >> THEN StocksSent(r.ret)
                      ELSE pc' = "update_stocks" /\ UNCHANGED history
                   /\ UNCHANGED reported
    /\ UNCHANGED << last_id, product_list, total, watch_remnants, prices, calls,
                    divideVars, entry, shop >>

\* Line 391 (main) and 376 (upload_stocks), one pass of the loop.
UpdateStocks ==
    /\ pc = "update_stocks"
    /\ calls' = Append(calls, Call("update_stocks", TRUE, Head(pending)))
    /\ pending' = Tail(pending)
    /\ IF pending' = << >> THEN StocksSent(stocks) ELSE UNCHANGED << pc, history >>
    /\ UNCHANGED << last_id, product_list, total, offer_ids, watch_remnants, stocks,
                    prices, reported, divideVars, entry, shop >>

UpdateStocksFails ==
    /\ pc = "update_stocks"
    /\ \E exc \in RemoteErrors :
          /\ calls' = Append(calls, Call("update_stocks", FALSE, Head(pending)))
          /\ Raise(exc)
    /\ UNCHANGED << last_id, product_list, total, offer_ids, watch_remnants, stocks,
                    prices, pending, divideVars, entry, shop >>

\* Lines 393-394 (main) and 354-355 (upload_prices): create_prices, then
\* list(divide(prices, 900)), or list(divide(prices, 1000)) in upload_prices.
CreatePrices ==
    /\ pc = "create_prices"
    /\ LET r == create_prices(watch_remnants, offer_ids)
       IN  /\ offer_ids' = r.offer_ids
           /\ IF r.raised # ""
              THEN Raise(r.raised) /\ UNCHANGED << prices, pending >>
              ELSE /\ prices' = r.ret
                   /\ pending' = divide(r.ret, PriceBatchSize)
                   /\ IF pending' = << >> THEN PricesSent(r.ret)
                      ELSE pc' = "update_price" /\ UNCHANGED history
                   /\ UNCHANGED reported
    /\ UNCHANGED << last_id, product_list, total, watch_remnants, stocks, calls,
                    divideVars, entry, shop >>

\* Line 395 (main) and 356 (upload_prices), one pass of the loop.
UpdatePrice ==
    /\ pc = "update_price"
    /\ calls' = Append(calls, Call("update_price", TRUE, Head(pending)))
    /\ pending' = Tail(pending)
    /\ IF pending' = << >> THEN PricesSent(prices) ELSE UNCHANGED << pc, history >>
    /\ UNCHANGED << last_id, product_list, total, offer_ids, watch_remnants, stocks,
                    prices, reported, divideVars, entry, shop >>

UpdatePriceFails ==
    /\ pc = "update_price"
    /\ \E exc \in RemoteErrors :
          /\ calls' = Append(calls, Call("update_price", FALSE, Head(pending)))
          /\ Raise(exc)
    /\ UNCHANGED << last_id, product_list, total, offer_ids, watch_remnants, stocks,
                    prices, pending, divideVars, entry, shop >>

Next ==
    \/ LoadEnv
    \/ GetProductList
    \/ GetProductListFails
    \/ DownloadStock
    \/ DownloadStockFails
    \/ DownloadStockUnreadable
    \/ CreateStocks
    \/ UpdateStocks
    \/ UpdateStocksFails
    \/ CreatePrices
    \/ UpdatePrice
    \/ UpdatePriceFails

Spec == InitMain /\ [][Next]_vars

\* One call of upload_stocks(watch_remnants, ...) or upload_prices(watch_remnants, ...):
\* the feed is the caller's argument, the offer IDs are fetched by the call.
InitUpload ==
    /\ entry \in { "upload_stocks", "upload_prices" }
    /\ shop \in { "small", "large" }
    /\ pc = "get_offer_ids"
    /\ watch_remnants \in MainFeeds
    /\ last_id = << >> /\ product_list = << >> /\ total = 0
    /\ offer_ids = << >>
    /\ stocks = << >> /\ prices = << >> /\ pending = << >>
    /\ calls = << >> /\ reported = ""
    /\ history = << >> /\ lst = << >> /\ size = 1 /\ chunks = NotCalled

NextUpload ==
    \/ GetProductList
    \/ GetProductListFails
    \/ CreateStocks
    \/ UpdateStocks
    \/ UpdateStocksFails
    \/ CreatePrices
    \/ UpdatePrice
    \/ UpdatePriceFails

SpecUpload == InitUpload /\ [][NextUpload]_vars

-----------------------------------------------------------------------------
(* Helpers of the properties. *)

Distinct(l) == \A i, j \in 1..Len(l) : i # j => l[i] # l[j]

\* The members of a set of integers in increasing order.
Ascending(S) ==
    [r \in 1..Cardinality(S) |->
        CHOOSE x \in S : Cardinality({ y \in S : y < x }) = r - 1]

StockCalls == { c \in 1..Len(history) : history[c].fn = "create_stocks" }
PriceCalls == { c \in 1..Len(history) : history[c].fn = "create_prices" }

\* The feed records of wr, by index, whose code is c.
WithCode(wr, c) == { j \in 1..Len(wr) : PyStr(wr[j].Kod) = c }

\* Occurrences of c in the list l.
Occurrences(l, c) == { k \in 1..Len(l) : l[k] = c }

-----------------------------------------------------------------------------
(* C2: for a list of distinct offer IDs and any feed, the list returned by    *)
(* create_stocks holds every offer ID of the list exactly once and no         *)
(* offer_id outside the list.                                                 *)
C2_EachOfferIdOnce ==
    \A c \in StockCalls :
        LET h == history[c]
        IN  (h.raised = "" /\ Distinct(h.arg)) =>
              /\ \A k \in 1..Len(h.arg) :
                    Cardinality({ j \in 1..Len(h.ret) : h.ret[j].offer_id = h.arg[k] }) = 1
              /\ \A j \in 1..Len(h.ret) : In(h.ret[j].offer_id, h.arg)

\* A returned call on a distinct list of two or more IDs with a feed of two
\* records carrying the same, known code.
C2_Witness ==
    /\ Len(history) >= 1
    /\ history[1].fn = "create_stocks" /\ history[1].raised = ""
    /\ Distinct(history[1].arg) /\ Len(history[1].arg) >= 2
    /\ Len(watch_remnants) = 2
    /\ PyStr(watch_remnants[1].Kod) = PyStr(watch_remnants[2].Kod)
    /\ In(PyStr(watch_remnants[1].Kod), history[1].arg)

(* C3: a second call of create_stocks, or of create_prices, on the same feed  *)
(* and the same offer-ID list object returns the list the first call          *)
(* returned.                                                                  *)
C3_SecondCallSameResult ==
    \A c, d \in 1..Len(history) :
        (c < d /\ history[c].fn = history[d].fn
               /\ history[c].raised = "" /\ history[d].raised = "")
            => history[d].ret = history[c].ret

\* The quantity rule of the claim, restated.
RuleStock(watch) ==
    IF PyStr(watch.Kolichestvo) = << ">", "1", "0" >> THEN 100
    ELSE IF PyStr(watch.Kolichestvo) = << "1" >> THEN 0
    ELSE PyInt(watch.Kolichestvo).val

FeedEntries(wr, idx) ==
    [r \in 1..Len(idx) |->
        [offer_id |-> PyStr(wr[idx[r]].Kod), stock |-> RuleStock(wr[idx[r]])]]

ZeroEntries(cat, idx) ==
    [r \in 1..Len(idx) |-> [offer_id |-> cat[idx[r]], stock |-> 0]]

(* C4 as claimed, for a list of distinct offer IDs: one entry per feed record *)
(* whose code is an offer ID of the list passed in (100 for ">10", 0 for "1", *)
(* else the integer), in feed order, then stock 0 for every offer ID no feed  *)
(* record matches, in catalog order.                                          *)
C4_AsClaimed ==
    \A c \in StockCalls :
        LET h == history[c]
            wr == watch_remnants
            hit == Ascending({ i \in 1..Len(wr) : In(PyStr(wr[i].Kod), h.arg) })
            rest == Ascending({ k \in 1..Len(h.arg) : WithCode(wr, h.arg[k]) = {} })
        IN  (h.raised = "" /\ Distinct(h.arg)) => h.ret = FeedEntries(wr, hit) \o ZeroEntries(h.arg, rest)

(* C4 amended: a feed record is matched when its code occurs in the list more *)
(* often than in the feed records before it (each match uses up the first     *)
(* occurrence left); the matched records give the entries, by the quantity    *)
(* rule, in feed order, then stock 0 follows for every occurrence not used    *)
(* up, in catalog order.                                                      *)
C4_StocksByWorkingList ==
    \A c \in StockCalls :
        LET h == history[c]
            wr == watch_remnants
            hit == Ascending({ i \in 1..Len(wr) :
                       Cardinality({ j \in WithCode(wr, PyStr(wr[i].Kod)) : j < i })
                         < Cardinality(Occurrences(h.arg, PyStr(wr[i].Kod))) })
            rest == Ascending({ k \in 1..Len(h.arg) :
                       Cardinality({ m \in Occurrences(h.arg, h.arg[k]) : m < k })
                         >= Cardinality(WithCode(wr, h.arg[k])) })
        IN  h.raised = "" => h.ret = FeedEntries(wr, hit) \o ZeroEntries(h.arg, rest)

\* A returned first call with a ">10" record, a "1" record (str or int cell)
\* and an offer ID left without a record.
C4_Witness ==
    /\ Len(history) >= 1
    /\ history[1].fn = "create_stocks" /\ history[1].raised = ""
    /\ Len(history[1].ret) = 3 /\ Len(watch_remnants) = 2
    /\ \E i, j \in 1..2 :
          /\ i # j
          /\ PyStr(watch_remnants[i].Kolichestvo) = GT10 /\ history[1].ret[i].stock = 100
          /\ PyStr(watch_remnants[j].Kolichestvo) = ONE /\ history[1].ret[j].stock = 0
    /\ history[1].ret[3].stock = 0
    /\ WithCode(watch_remnants, history[1].ret[3].offer_id) = {}

(* C5: every entry of a list returned by create_stocks has a stock >= 0.      *)
C5_StockNonNegative ==
    \A c \in StockCalls :
        history[c].raised = "" =>
            \A j \in 1..Len(history[c].ret) : history[c].ret[j].stock >= 0

(* C6: create_prices emits no entry for an offer_id outside the list, exactly *)
(* one entry per feed record whose code is in the list, in feed order, each   *)
(* with currency_code "RUB", old_price "0", auto_action_enabled "UNKNOWN";    *)
(* and it leaves the list as it was.                                          *)
C6_PricesOnlyForListed ==
    \A c \in PriceCalls :
        LET h == history[c]
            wr == watch_remnants
            hit == Ascending({ i \in 1..Len(wr) : In(PyStr(wr[i].Kod), h.arg) })
        IN  /\ h.after = h.arg
            /\ h.raised = "" =>
                 /\ Len(h.ret) = Len(hit)
                 /\ \A r \in 1..Len(h.ret) :
                       /\ h.ret[r].offer_id = PyStr(wr[hit[r]].Kod)
                       /\ In(h.ret[r].offer_id, h.arg)
                       /\ h.ret[r].currency_code = "RUB"
                       /\ h.ret[r].old_price = "0"
                       /\ h.ret[r].auto_action_enabled = "UNKNOWN"

\* A returned call that emitted an entry and skipped a record of unknown code.
C6_Witness ==
    \E c \in PriceCalls :
        /\ history[c].raised = "" /\ Len(history[c].ret) = 1
        /\ Len(watch_remnants) = 2
        /\ ~In(PyStr(watch_remnants[1].Kod), history[c].arg)
        /\ history[c].ret[1].offer_id = PyStr(watch_remnants[2].Kod)
        /\ history[c].ret[1].price = << "1", "2", "0", "0" >>

(* C7: for n >= 1 the slices of divide(lst, n), concatenated, are lst; every  *)
(* slice but the last has n elements, the last has 1..n; an empty lst gives   *)
(* no slice; 250 elements with n = 100 give sizes 100, 100, 50.               *)
C7_DivideSlices ==
    (chunks.called /\ size >= 1) =>
        LET out == chunks.out
            m == Len(chunks.out)
        IN  /\ chunks.raised = ""
            /\ \A j \in 1..(m - 1) : Len(out[j]) = size
            /\ m > 0 => (Len(out[m]) >= 1 /\ Len(out[m]) <= size)
            \* concatenated in order, the slices are lst
            /\ \A j \in 1..m : \A r \in 1..Len(out[j]) :
                  /\ (j - 1) * size + r <= Len(lst)
                  /\ out[j][r] = lst[(j - 1) * size + r]
            /\ Len(lst) = (IF m = 0 THEN 0 ELSE (m - 1) * size + Len(out[m]))
            /\ lst = << >> => out = << >>
            /\ (Len(lst) = 250 /\ size = 100) =>
                  [j \in 1..m |-> Len(out[j])] = << 100, 100, 50 >>

\* A division whose last slice is shorter than the others.
C7_Witness ==
    /\ chunks.called /\ size = 2 /\ Len(lst) = 5
    /\ Len(chunks.out) = 3 /\ Len(chunks.out[3]) = 1

-----------------------------------------------------------------------------
(* Properties of a run of main. *)

RECURSIVE Flatten(_)
Flatten(ll) == IF ll = << >> THEN << >> ELSE Head(ll) \o Flatten(Tail(ll))

\* The offer IDs of the fetched catalog, in page order.
FetchedIds == [k \in 1..Len(product_list) |-> product_list[k].offer_id]

Failed == \E i \in 1..Len(calls) : ~calls[i].ok

CallsOf(op) == SelectSeq(calls, LAMBDA c : c.op = op)

Payloads(op) == [j \in 1..Len(CallsOf(op)) |-> CallsOf(op)[j].arg]

Sent == calls' # calls

(* C1: the prices main derives (and uploads) hold one entry for each feed     *)
(* record whose code is an offer ID of the fetched catalog; for catalog       *)
(* ["X","Y"] and the feed [{X, "5", "1'200.00 rub."}] they are [X:"1200"].    *)
C1_PricesForCatalogRecords ==
    pc \in { "update_price", "done" } =>
        LET wr == watch_remnants
            hit == Ascending({ i \in 1..Len(wr) : In(PyStr(wr[i].Kod), FetchedIds) })
        IN  /\ Len(prices) = Len(hit)
            /\ \A r \in 1..Len(prices) : prices[r].offer_id = PyStr(wr[hit[r]].Kod)
            /\ (FetchedIds = << X, Y >>
                  /\ wr = << Watch(StrV(X), StrV(<< "5" >>), StrV(P1200)) >>)
               => /\ stocks = << [offer_id |-> X, stock |-> 5],
                                 [offer_id |-> Y, stock |-> 0] >>
                  /\ prices = << PriceEntry(X, << "1", "2", "0", "0" >>) >>

(* C8: get_offer_ids sends the empty cursor first and then the cursor the     *)
(* previous page returned; it leaves its loop after a page exactly when the   *)
(* accumulated count equals that page's total (so while the two differ it     *)
(* goes on asking), and then returns the offer IDs of all accumulated items   *)
(* in page order.                                                             *)
C8_PaginationUntilTotal ==
    /\ [](Len(calls) >= 1 => calls[1].arg = << >>)
    /\ [][(Sent /\ pc = "get_offer_ids")
             => calls'[Len(calls')].arg = last_id]_vars
    /\ [][(Sent /\ pc = "get_offer_ids" /\ calls'[Len(calls')].ok) =>
             /\ SubSeq(product_list', 1, Len(product_list)) = product_list
             /\ (pc' = "download_stock") <=> (total' = Len(product_list'))
             /\ (pc' # "download_stock") => (pc' = "get_offer_ids")
             /\ (pc' = "download_stock") =>
                   /\ Len(offer_ids') = Len(product_list')
                   /\ \A k \in 1..Len(offer_ids') :
                         offer_ids'[k] = product_list'[k].offer_id]_vars

\* Two pages were fetched, the second with the cursor of the first, and the
\* accumulated count has overshot the reported total: the loop goes on.
C8_Witness ==
    /\ pc = "get_offer_ids" /\ Len(calls) = 2 /\ ~Failed
    /\ calls[2].arg = << "c" >>
    /\ total < Len(product_list) /\ total > 0

(* C9: once a remote call of main has failed, no further remote call is made  *)
(* (no retry, no remaining stock batch, no price batch), and main is in its   *)
(* reported-error state: an except branch has printed.                        *)
C9_FailureEndsRun ==
    /\ [](Failed => (pc = "error" /\ reported # ""))
    /\ [][Failed => calls' = calls]_vars

\* The second stock batch failed after the first went through, a third is
\* left unsent and no price batch was sent.
C9_Witness ==
    /\ pc = "error" /\ Len(calls) >= 2
    /\ calls[Len(calls)].op = "update_stocks" /\ ~calls[Len(calls)].ok
    /\ calls[Len(calls) - 1].op = "update_stocks" /\ calls[Len(calls) - 1].ok
    /\ Len(pending) = 2
    /\ CallsOf("update_price") = << >>

Rank(op) ==
    CASE op = "get_product_list" -> 1
      [] op = "download_stock" -> 2
      [] op = "update_stocks" -> 3
      [] op = "update_price" -> 4

(* C10: the remote calls of main come in the order product-list pages, feed   *)
(* download, stock batches, price batches; a stock batch has at most 100      *)
(* entries and a price batch at most 900; and in a run that ends without a    *)
(* failure the feed was downloaded once and the stock batches, concatenated   *)
(* in upload order, are the list create_stocks returned.                      *)
C10_CallOrderAndBatches ==
    /\ \A i, j \in 1..Len(calls) : i < j => Rank(calls[i].op) <= Rank(calls[j].op)
    /\ \A i \in 1..Len(calls) :
          /\ calls[i].op = "update_stocks" =>
                (Len(calls[i].arg) >= 1 /\ Len(calls[i].arg) <= 100)
          /\ calls[i].op = "update_price" =>
                (Len(calls[i].arg) >= 1 /\ Len(calls[i].arg) <= 900)
    /\ pc \in { "create_prices", "update_price", "done" } =>
          Flatten(Payloads("update_stocks")) = stocks
    /\ pc = "done" =>
          /\ ~Failed
          /\ Len(CallsOf("get_product_list")) >= 1
          /\ Len(CallsOf("download_stock")) = 1
          /\ Flatten(Payloads("update_price")) = prices

\* A finished run that sent more than two stock batches, the first full and
\* the last short, and a price list of more than 900 entries in two batches,
\* the first of 900.
C10_Witness ==
    /\ pc = "done"
    /\ Len(CallsOf("update_stocks")) >= 3
    /\ Len(CallsOf("update_stocks")[1].arg) = 100
    /\ Len(CallsOf("update_stocks")[Len(CallsOf("update_stocks"))].arg) < 100
    /\ Len(prices) > 900
    /\ Len(CallsOf("update_price")) = 2
    /\ Len(CallsOf("update_price")[1].arg) = 900
    /\ Len(CallsOf("update_price")[2].arg) = Len(prices) - 900

====
